---- MODULE Spec2Model ----
(***************************************************************************)
(* Model of native-addons/rust-addon/src/lib.rs: the pure numeric          *)
(* functions is_prime, count_primes, fibonacci and hash_password, applied  *)
(* to inputs drawn at Init, and the fan-out/reduce variant of prime        *)
(* counting (count_primes_parallel, sketched in the source as a comment).  *)
(*                                                                         *)
(* TLC integers are 32-bit, so a u64 is a little-endian sequence of four   *)
(* 16-bit limbs and every u64 operation is done limb by limb at the real   *)
(* width.  u32 arguments are drawn from 0..MaxN plus a few large samples   *)
(* below 2^31.                                                             *)
(***************************************************************************)
EXTENDS Integers, Sequences, FiniteSets, TLC

\* ---------------------------------------------------------------- bounds
MaxN == 101
MaxFib == 95
MaxLen == 3
MaxIter == 6
ParMaxN == 5
NWorkers == 2

\* u32 arguments beyond 0..MaxN: 1009^2, 4098^2 - 1, a prime above 10^6,
\* 2^24 + 1 (the first integer an f32 cannot hold), 46339^2 and
\* 46340^2 - 1 (the largest such pair whose squares fit a TLC integer).
LargeSamples == {1018081, 16793603, 1000003, 16777217, 2147302921, 2147395599}

\* Single-byte (ASCII) characters passwords are built from, and two
\* multi-byte characters as their UTF-8 encodings ("e-acute", U+1F600).
ByteAlphabet == {0, 97, 127}
MultiByteSamples == {<<195, 169>>, <<240, 159, 152, 128>>}

\* ------------------------------------------------------- u64 as 4 limbs
LimbBase == 2^16
U64Limbs == 64 \div 16

Zero64 == [k \in 1..U64Limbs |-> 0]

\* `x as u64` for a value x that fits a TLC integer.
U64FromNat(x) == [k \in 1..U64Limbs |->
                    IF k = 1 THEN x % LimbBase
                    ELSE IF k = 2 THEN x \div LimbBase
                    ELSE 0]

RECURSIVE AddCarry(_, _, _, _, _)
\* Limbs k..U64Limbs of a + b with incoming carry c, appended to acc; the
\* carry out of the top limb is returned beside the 64-bit sum.
AddCarry(a, b, k, c, acc) ==
    IF k > U64Limbs THEN [value |-> acc, overflow |-> c # 0]
    ELSE LET s == a[k] + b[k] + c
         IN  AddCarry(a, b, k + 1, s \div LimbBase, Append(acc, s % LimbBase))

\* The addition at 32 bits (a, b and temp declared u32): the sum modulo
\* 2^32 and whether it overflowed.
overflowing_add_u32(a, b) ==
    LET t == AddCarry(a, b, 1, 0, <<>>).value
    IN  [value |-> [k \in 1..U64Limbs |-> IF k <= 2 THEN t[k] ELSE 0],
         overflow |-> t[3] # 0 \/ t[4] # 0]

\* u64::overflowing_add: the sum modulo 2^64 and whether it overflowed.
overflowing_add(a, b) == AddCarry(a, b, 1, 0, <<>>)

\* u64::wrapping_add with a small right operand (`byte as u64`, `i as u64`).
wrapping_add(a, x) == overflowing_add(a, U64FromNat(x)).value

RECURSIVE MulCarry(_, _, _, _, _)
MulCarry(a, m, k, c, acc) ==
    IF k > U64Limbs THEN acc
    ELSE LET p == a[k] * m + c
         IN  MulCarry(a, m, k + 1, p \div LimbBase, Append(acc, p % LimbBase))

\* u64::wrapping_mul by a small multiplier: the product modulo 2^64.
wrapping_mul(a, m) == MulCarry(a, m, 1, 0, <<>>)

\* ------------------------------------------------------------- is_prime
F64MantissaBits == 53

RECURSIVE BitLen(_)
\* Number of significant bits of x (0 for 0).
BitLen(x) == IF x = 0 THEN 0 ELSE 1 + BitLen(x \div 2)

RECURSIVE Shr(_, _)
\* x >> s, one bit at a time (2^s itself may not fit a TLC integer).
Shr(x, s) == IF s = 0 \/ x = 0 THEN x ELSE Shr(x \div 2, s - 1)

\* `n as f<p>`: n rounded to p significant bits, ties to even.  Exact
\* whenever n has at most p bits, which an f64 gives every u32.
IntToFloat(n, p) ==
    IF BitLen(n) <= p THEN n
    ELSE LET k == BitLen(n) - p
             q == n \div (2^k)
             r == n % (2^k)
             half == 2^(k - 1)
             up == r > half \/ (r = half /\ q % 2 = 1)
         IN  (IF up THEN q + 1 ELSE q) * (2^k)

RECURSIVE TopBit(_, _)
\* The largest power of 4 that is <= x, searched upward from bit.
TopBit(x, bit) == IF bit > x \div 4 THEN bit ELSE TopBit(x, bit * 4)

RECURSIVE SqrtDigits(_, _, _)
\* Digit-by-digit square root: the integer part and the remainder
\* x - root^2 of the exact square root.
SqrtDigits(x, res, bit) ==
    IF bit = 0 THEN [root |-> res, rem |-> x]
    ELSE IF x >= res + bit
         THEN SqrtDigits(x - (res + bit), (res \div 2) + bit, bit \div 4)
         ELSE SqrtDigits(x, res \div 2, bit \div 4)

\* `x.sqrt() as u32` for a float of p significant bits holding the integer
\* x.  IEEE 754 sqrt is correctly rounded.  With k the integer part of the
\* exact root: an exact root gives k.  Otherwise the root lies strictly
\* between k and k+1 and the truncated result is k+1 exactly when the root
\* rounds up to k+1, that is when it is at least k + 1 - h, for h half the
\* spacing 2^(E-p+1) of the floats in [k, k+1), E = BitLen(k) - 1.  With
\* d = (k+1)^2 - x and s = p - E - 1 this is d * 2^s <= k, i.e.
\* d <= k >> s.  The result is below 2^16, so `as u32` does not saturate.
FloatSqrtAsInt(x, p) ==
    IF x = 0 THEN 0
    ELSE LET sd == SqrtDigits(x, 0, TopBit(x, 1))
             k == sd.root
             d == 2 * k + 1 - sd.rem
             s == p - BitLen(k)
         IN  IF sd.rem = 0 THEN k
             ELSE IF d <= Shr(k, s) THEN k + 1
             ELSE k

\* A narrower float: `(n as f32).sqrt() as u32`.
f32_sqrt_as_u32(n) == FloatSqrtAsInt(IntToFloat(n, 24), 24)

\* let sqrt = (n as f64).sqrt() as u32;
f64_sqrt_as_u32(n) == FloatSqrtAsInt(IntToFloat(n, F64MantissaBits), F64MantissaBits)

\* (lo..=hi).step_by(2)
StepBy2(lo, hi) == {i \in lo..hi : (i - lo) % 2 = 0}

\* The divisor range made exclusive: (3..sqrt).step_by(2).
is_prime_exclusive(n) ==
    IF n < 2 THEN FALSE
    ELSE IF n = 2 THEN TRUE
    ELSE IF n % 2 = 0 THEN FALSE
    ELSE LET sqrt == f64_sqrt_as_u32(n)
         IN  ~ \E i \in StepBy2(3, sqrt - 1) : n % i = 0

is_prime(n) ==
    IF n < 2 THEN FALSE
    ELSE IF n = 2 THEN TRUE
    ELSE IF n % 2 = 0 THEN FALSE
    ELSE LET sqrt == f64_sqrt_as_u32(n)
         IN  ~ \E i \in StepBy2(3, sqrt) : n % i = 0

\* ------------------------------------------------------------ fibonacci
\* let temp = a + b; a = b; b = temp;  The plain `+` panics on overflow in
\* a build with overflow checks (the debug profile, which `cargo test`
\* uses) and wraps in one without (the release profile).  A panic ends the
\* call: the remaining iterations do not run.  iters counts the completed
\* iterations.
fib_step(st, checks) ==
    IF st.panicked THEN st
    ELSE LET temp == overflowing_add(st.a, st.b)
         IN  IF temp.overflow /\ checks
             THEN [st EXCEPT !.panicked = TRUE]
             ELSE [panicked |-> FALSE, a |-> st.b, b |-> temp.value,
                   iters |-> st.iters + 1]

\* -------------------------------------------------------- hash_password
HexDigits == <<"0", "1", "2", "3", "4", "5", "6", "7",
               "8", "9", "a", "b", "c", "d", "e", "f">>

\* v >> 4 on limbs: each limb takes the low nibble of the next one.
ShiftRight4(v) == [k \in 1..U64Limbs |->
                     (v[k] \div 16)
                     + (IF k < U64Limbs THEN (v[k + 1] % 16) * (LimbBase \div 16)
                        ELSE 0)]

RECURSIVE RadixDigits(_, _, _)
\* The integer formatter's digit loop: emit x % 16, x /= 16, until x = 0
\* (at least one digit), most significant digit first.
RadixDigits(v, digits, acc) ==
    LET out == <<digits[(v[1] % 16) + 1]>> \o acc
        rest == ShiftRight4(v)
    IN  IF rest = Zero64 THEN out ELSE RadixDigits(rest, digits, out)

RECURSIVE PadLeft(_, _, _)
\* Padding to a minimum width: nothing is cut when str is already wider.
PadLeft(str, fill, width) ==
    IF Len(str) >= width THEN str ELSE PadLeft(<<fill>> \o str, fill, width)

\* format!("{:x}", hash): no width.
format_x(hash) == RadixDigits(hash, HexDigits, <<>>)

\* format!("{:016x}", hash)
format_016x(hash) == PadLeft(RadixDigits(hash, HexDigits, <<>>), "0", 16)

\* The position left out: hash.wrapping_mul(31).wrapping_add(byte as u64).
hash_step_no_index(hash, byte, i) == wrapping_add(wrapping_mul(hash, 31), byte)

\* hash = hash.wrapping_mul(31).wrapping_add(byte as u64).wrapping_add(i as u64);
hash_step(hash, byte, i) ==
    wrapping_add(wrapping_add(wrapping_mul(hash, 31), byte), i)

\* ------------------------------------------------------------ for loops
RECURSIVE ForRange(_, _, _, _, _)
RECURSIVE LoopBody(_, _, _, _)

\* for i in lo..=hi { st = body(st, i) }: the body of loop `loop` applied
\* for i = lo, lo+1, ..., hi in this order.  The range is folded in halves,
\* the left half first; the test on `left` makes the evaluator finish the
\* left half before it starts the right one, which keeps the evaluation
\* depth logarithmic in the length of the range.
ForRange(loop, ctx, st, lo, hi) ==
    IF lo > hi THEN st
    ELSE IF lo = hi THEN LoopBody(loop, ctx, st, lo)
    ELSE LET mid == (lo + hi) \div 2
             left == ForRange(loop, ctx, st, lo, mid)
         IN  IF left = left THEN ForRange(loop, ctx, left, mid + 1, hi) ELSE st

\* The bodies of the code's loops.  ctx is what the body reads besides the
\* loop state: the build's overflow checking for fibonacci, the bytes of
\* the password for hash_password.  i is 1-based for the byte loop, so the
\* code's enumerate() index is i - 1.
LoopBody(loop, ctx, st, i) ==
    CASE loop = "count_primes" -> IF is_prime(i) THEN st + 1 ELSE st
      [] loop = "fibonacci" -> fib_step(st, ctx)
      [] loop = "bytes" -> hash_step(st, ctx[i], i - 1)
      [] loop = "iterations" -> ForRange("bytes", ctx, st, 1, Len(ctx))

\* --------------------------------------------------------- count_primes
\* (lo..=hi).filter(|&n| is_prime(n)).count() as u32
CountPrimesIn(lo, hi) == ForRange("count_primes", <<>>, 0, lo, hi)

\* The range made exclusive: (2..max).
count_primes_exclusive(max) == CountPrimesIn(2, max - 1)

\* The range started one late: (3..=max).
count_primes_from_3(max) == CountPrimesIn(3, max)

count_primes(max) == CountPrimesIn(2, max)

\* ------------------------------------------------------ fibonacci, whole
\* let mut a: u64 = 0; let mut b: u64 = 1; for _ in lo..=hi { .. }; b
FibLoop(lo, hi, checks) ==
    LET init == [panicked |-> FALSE, a |-> Zero64, b |-> U64FromNat(1),
                 iters |-> 0]
        fin == ForRange("fibonacci", checks, init, lo, hi)
    IN  [panicked |-> fin.panicked,
         value |-> IF fin.panicked THEN Zero64 ELSE fin.b,
         iters |-> fin.iters]

\* if n <= 1 { return n as u64; }
FibEarly(n) == [panicked |-> FALSE, value |-> U64FromNat(n), iters |-> 0]

\* The loop range made exclusive: for _ in 2..n.
fibonacci_exclusive(n, checks) ==
    IF n <= 1 THEN FibEarly(n) ELSE FibLoop(2, n - 1, checks)

\* The result: whether the call panicked, the returned value, and the
\* number of loop iterations completed.
fibonacci(n, checks) ==
    IF n <= 1 THEN FibEarly(n) ELSE FibLoop(2, n, checks)

\* -------------------------------------------------- hash_password, whole
\* for _ in 0..iterations { for (i, &byte) in bytes.iter().enumerate() {..} }
\* through `passes` passes; hash starts at 0 and is carried from pass to
\* pass.
HashLoops(bytes, passes) == ForRange("iterations", bytes, Zero64, 1, passes)

\* The accumulator after the loops (the value that is formatted).
hash_accumulator(password, iterations) == HashLoops(password, iterations)

\* The pass count made inclusive: for _ in 0..=iterations.
hash_password_inclusive(password, iterations) ==
    format_016x(HashLoops(password, iterations + 1))

hash_password(password, iterations) ==
    format_016x(hash_accumulator(password, iterations))

\* ------------------------------------------------ count_primes_parallel
\* (2..=max).into_par_iter().filter(|&n| is_prime(n)).count(): the
\* candidates are dealt out to the workers, each worker counts the primes
\* among its own candidates into its own partial count, and the partial
\* counts are added up once every candidate has been tested.
Workers == 1..NWorkers

Assignments(max) == [2..max -> Workers]

RECURSIVE SumPartial(_, _)
SumPartial(partial, w) ==
    IF w = 0 THEN 0 ELSE partial[w] + SumPartial(partial, w - 1)

\* ---------------------------------------------------------------- state
VARIABLES
    pc,               \* "ready", "running" (parallel count), "done", "panicked"
    op,               \* the function the host calls
    arg,              \* its arguments
    overflow_checks,  \* whether the build checks integer overflow
    ret,              \* what the call returned
    par               \* the parallel count: assignment, pending, partial counts

vars == <<pc, op, arg, overflow_checks, ret, par>>

Passwords ==
    UNION {[1..k -> ByteAlphabet] : k \in 0..MaxLen} \cup MultiByteSamples

NoArg == [n |-> 0, max |-> 0, password |-> <<>>, iterations |-> 0]

NoRet == [bool |-> FALSE, u32 |-> 0, u64 |-> Zero64, str |-> <<>>, iters |-> 0]

ParIdle == [assign |-> <<>>, pending |-> {}, partial |-> <<>>]

Calls ==
    {<<"is_prime", [NoArg EXCEPT !.n = n]>> : n \in (0..MaxN) \cup LargeSamples}
    \cup {<<"count_primes", [NoArg EXCEPT !.max = m]>> : m \in 0..MaxN}
    \cup {<<"fibonacci", [NoArg EXCEPT !.n = n]>> : n \in 0..MaxFib}
    \cup {<<"hash_password", [NoArg EXCEPT !.password = pw, !.iterations = it]>> :
            pw \in Passwords, it \in 0..MaxIter}
    \cup {<<"count_primes_parallel", [NoArg EXCEPT !.max = m]>> : m \in 0..ParMaxN}

Init ==
    /\ pc = "ready"
    /\ \E c \in Calls : op = c[1] /\ arg = c[2]
    /\ overflow_checks \in BOOLEAN
    /\ ret = NoRet
    /\ par = ParIdle

CallIsPrime ==
    /\ pc = "ready" /\ op = "is_prime"
    /\ ret' = [ret EXCEPT !.bool = is_prime(arg.n)]
    /\ pc' = "done"
    /\ UNCHANGED <<op, arg, overflow_checks, par>>

CallCountPrimes ==
    /\ pc = "ready" /\ op = "count_primes"
    /\ ret' = [ret EXCEPT !.u32 = count_primes(arg.max)]
    /\ pc' = "done"
    /\ UNCHANGED <<op, arg, overflow_checks, par>>

CallFibonacci ==
    /\ pc = "ready" /\ op = "fibonacci"
    /\ LET r == fibonacci(arg.n, overflow_checks)
       IN  /\ ret' = [ret EXCEPT !.u64 = r.value, !.iters = r.iters]
           /\ pc' = IF r.panicked THEN "panicked" ELSE "done"
    /\ UNCHANGED <<op, arg, overflow_checks, par>>

CallHashPassword ==
    /\ pc = "ready" /\ op = "hash_password"
    /\ ret' = [ret EXCEPT !.str = hash_password(arg.password, arg.iterations)]
    /\ pc' = "done"
    /\ UNCHANGED <<op, arg, overflow_checks, par>>

ParFork ==
    /\ pc = "ready" /\ op = "count_primes_parallel"
    /\ \E f \in Assignments(arg.max) :
          par' = [assign |-> f, pending |-> 2..arg.max,
                  partial |-> [w \in Workers |-> 0]]
    /\ pc' = "running"
    /\ UNCHANGED <<op, arg, overflow_checks, ret>>

ParWorkerStep(w) ==
    /\ pc = "running"
    /\ \E c \in par.pending :
          /\ par.assign[c] = w
          /\ par' = [par EXCEPT
                       !.pending = @ \ {c},
                       !.partial[w] = IF is_prime(c) THEN @ + 1 ELSE @]
    /\ UNCHANGED <<pc, op, arg, overflow_checks, ret>>

ParReduce ==
    /\ pc = "running" /\ par.pending = {}
    /\ ret' = [ret EXCEPT !.u32 = SumPartial(par.partial, NWorkers)]
    /\ pc' = "done"
    /\ UNCHANGED <<op, arg, overflow_checks, par>>

Next ==
    \/ CallIsPrime
    \/ CallCountPrimes
    \/ CallFibonacci
    \/ CallHashPassword
    \/ ParFork
    \/ \E w \in Workers : ParWorkerStep(w)
    \/ ParReduce

Spec == Init /\ [][Next]_vars

\* ------------------------------------------- unbounded naturals (claims)
\* A natural number as a little-endian sequence of 16-bit limbs of any
\* length; nothing is ever cut off.
NatLimb(a, k) == IF k <= Len(a) THEN a[k] ELSE 0

NatFromInt(x) == <<x % LimbBase, x \div LimbBase>>

RECURSIVE NatAddFrom(_, _, _, _, _)
NatAddFrom(a, b, k, c, acc) ==
    IF k > Len(a) /\ k > Len(b)
    THEN IF c = 0 THEN acc ELSE Append(acc, c)
    ELSE LET t == NatLimb(a, k) + NatLimb(b, k) + c
         IN  NatAddFrom(a, b, k + 1, t \div LimbBase, Append(acc, t % LimbBase))

NatAdd(a, b) == NatAddFrom(a, b, 1, 0, <<>>)

RECURSIVE NatMulFrom(_, _, _, _, _)
NatMulFrom(a, m, k, c, acc) ==
    IF k > Len(a)
    THEN IF c = 0 THEN acc ELSE Append(acc, c)
    ELSE LET t == a[k] * m + c
         IN  NatMulFrom(a, m, k + 1, t \div LimbBase, Append(acc, t % LimbBase))

NatMul(a, m) == NatMulFrom(a, m, 1, 0, <<>>)

\* a < 2^64
NatFits64(a) == \A k \in 1..Len(a) : k > 4 => a[k] = 0

\* a mod 2^64, as four limbs
NatMod64(a) == [k \in 1..4 |-> NatLimb(a, k)]

NatEq(a, b) ==
    \A k \in 1..(IF Len(a) > Len(b) THEN Len(a) ELSE Len(b)) :
        NatLimb(a, k) = NatLimb(b, k)

\* a <= b for two four-limb values: equal, or smaller at the highest limb
\* where they differ.
Leq64(a, b) ==
    \/ a = b
    \/ \E k \in 1..4 : a[k] < b[k] /\ \A j \in (k + 1)..4 : a[j] = b[j]

RECURSIVE NatIterate(_, _, _, _, _)
RECURSIVE NatStep(_, _, _, _)

\* x after steps lo..hi of the reference computation `what`, in order
\* (halved like ForRange).
NatIterate(what, ctx, x, lo, hi) ==
    IF lo > hi THEN x
    ELSE IF lo = hi THEN NatStep(what, ctx, x, lo)
    ELSE LET mid == (lo + hi) \div 2
             left == NatIterate(what, ctx, x, lo, mid)
         IN  IF left = left THEN NatIterate(what, ctx, left, mid + 1, hi) ELSE x

\* The accumulator step the hash is specified to take: each operation done
\* in unbounded arithmetic and then reduced modulo 2^64.
SpecHashStep(acc, byte, i) ==
    NatMod64(NatAdd(NatMod64(NatAdd(NatMod64(NatMul(acc, 31)),
                                    NatFromInt(byte))),
                    NatFromInt(i)))

NatStep(what, ctx, x, i) ==
    CASE what = "fib" -> <<x[2], NatAdd(x[1], x[2])>>
      [] what = "spec_bytes" -> SpecHashStep(x, ctx[i], i - 1)
      [] what = "spec_passes" -> NatIterate("spec_bytes", ctx, x, 1, Len(ctx))
      [] what = "sum_bytes" ->
             NatAdd(NatAdd(NatMul(x, 31), NatFromInt(ctx[i])), NatFromInt(i - 1))
      [] what = "sum_passes" -> NatIterate("sum_bytes", ctx, x, 1, Len(ctx))
      [] what = "hex" -> NatAdd(NatMul(x, 16), NatFromInt(ctx[i]))

\* F(n) by its definition F(0) = 0, F(1) = 1, F(k+1) = F(k) + F(k-1), in
\* unbounded arithmetic.
FibNat(n) ==
    NatIterate("fib", <<>>, <<NatFromInt(0), NatFromInt(1)>>, 1, n)[1]

\* Primality by its definition.
IsPrimeMath(n) == n > 1 /\ \A d \in 2..(n - 1) : n % d # 0

\* The accumulator the hash is specified to reach: it starts at 0 and is
\* carried through every byte of every pass.
SpecAccumulator(bytes, passes) ==
    NatIterate("spec_passes", bytes, NatMod64(NatFromInt(0)), 1, passes)

\* The same sum with no reduction at all.
UnreducedAccumulator(bytes, passes) ==
    NatIterate("sum_passes", bytes, NatFromInt(0), 1, passes)

LowerHexChars == {"0", "1", "2", "3", "4", "5", "6", "7", "8", "9",
                  "a", "b", "c", "d", "e", "f"}

HexValue(ch) ==
    CASE ch = "0" -> 0 [] ch = "1" -> 1 [] ch = "2" -> 2 [] ch = "3" -> 3
      [] ch = "4" -> 4 [] ch = "5" -> 5 [] ch = "6" -> 6 [] ch = "7" -> 7
      [] ch = "8" -> 8 [] ch = "9" -> 9 [] ch = "a" -> 10 [] ch = "b" -> 11
      [] ch = "c" -> 12 [] ch = "d" -> 13 [] ch = "e" -> 14 [] ch = "f" -> 15
      [] OTHER -> -1

\* The number a string of hexadecimal digits writes, most significant
\* digit first.
ParseHex(str) ==
    NatIterate("hex", [i \in 1..Len(str) |-> HexValue(str[i])],
               NatFromInt(0), 1, Len(str))

RECURSIVE NatHexLen(_)
\* Number of significant hexadecimal digits of a four-limb value (0 for 0).
NatHexLen(v) ==
    IF \A k \in 1..4 : v[k] = 0 THEN 0
    ELSE 1 + NatHexLen([k \in 1..4 |->
                          (v[k] \div 16) + (IF k < 4 THEN (v[k + 1] % 16) * 4096 ELSE 0)])

Returned(f) == pc = "done" /\ op = f

Ended(f) == pc \in {"done", "panicked"} /\ op = f

\* ------------------------------------------------------------------ C1
\* C1: is_prime(n) is true exactly when n is prime (n > 1 and no d with
\* 1 < d < n divides n); false for n < 2, true for 2, false for even n > 2.
C1_IsPrimeCorrect ==
    Ended("is_prime") =>
        /\ pc = "done"
        /\ ret.bool = IsPrimeMath(arg.n)
        /\ (arg.n < 2 => ~ret.bool)
        /\ (arg.n = 2 => ret.bool)
        /\ (arg.n > 2 /\ arg.n % 2 = 0 => ~ret.bool)

C1_Witness == Returned("is_prime") /\ arg.n = 1000003 /\ ret.bool

\* ------------------------------------------------------------------ C2
\* C2: count_primes(max) is the number of i in 2..max with is_prime(i);
\* 0 when max < 2; count_primes(10) = 4 and count_primes(100) = 25.
C2_CountPrimesIsCount ==
    Ended("count_primes") =>
        /\ pc = "done"
        /\ ret.u32 = Cardinality({i \in 2..arg.max : is_prime(i)})
        /\ (arg.max < 2 => ret.u32 = 0)
        /\ (arg.max = 10 => ret.u32 = 4)
        /\ (arg.max = 100 => ret.u32 = 25)

C2_Witness == Returned("count_primes") /\ arg.max = 100 /\ ret.u32 = 25

\* ------------------------------------------------------------------ C3
\* C3: fibonacci never fails: on overflow (first at n = 94) the addition
\* wraps and the call returns F(n) mod 2^64; it never aborts.
C3_FibonacciNeverFails ==
    Ended("fibonacci") =>
        /\ pc = "done"
        /\ ret.u64 = NatMod64(FibNat(arg.n))

\* ------------------------------------------------------------------ C4
\* C4: fibonacci(0) = 0, fibonacci(1) = 1, and below the overflow point
\* fibonacci(n) = fibonacci(n-1) + fibonacci(n-2) for n >= 2, the loop
\* running exactly n-1 times; fibonacci(10) = 55, fibonacci(20) = 6765.
C4_FibonacciRecurrence ==
    Ended("fibonacci") /\ NatFits64(FibNat(arg.n)) =>
        /\ pc = "done"
        /\ (arg.n = 0 => ret.u64 = <<0, 0, 0, 0>> /\ ret.iters = 0)
        /\ (arg.n = 1 => ret.u64 = <<1, 0, 0, 0>> /\ ret.iters = 0)
        /\ (arg.n >= 2 =>
              /\ NatEq(ret.u64,
                       NatAdd(fibonacci(arg.n - 1, overflow_checks).value,
                              fibonacci(arg.n - 2, overflow_checks).value))
              /\ ret.iters = arg.n - 1)
        /\ (arg.n = 10 => ret.u64 = <<55, 0, 0, 0>>)
        /\ (arg.n = 20 => ret.u64 = <<6765, 0, 0, 0>>)

C4_Witness ==
    /\ Returned("fibonacci") /\ arg.n = 93 /\ ret.iters = 92
    /\ NatFits64(FibNat(93)) /\ ~NatFits64(FibNat(94))

\* ------------------------------------------------------------------ C5
\* C5: the digest is the hexadecimal form of one 64-bit accumulator that
\* starts at 0, is carried across the passes, and for each byte at
\* position i becomes ((acc * 31 mod 2^64) + byte mod 2^64) + i mod 2^64.
C5_HashAccumulator ==
    Ended("hash_password") =>
        /\ pc = "done"
        /\ NatEq(ParseHex(ret.str), SpecAccumulator(arg.password, arg.iterations))

C5_Witness ==
    /\ Returned("hash_password")
    /\ Len(arg.password) >= 2 /\ arg.iterations >= 2
    /\ ~NatFits64(UnreducedAccumulator(arg.password, arg.iterations))

\* ------------------------------------------------------------------ C6
\* C6: the digest has exactly 16 characters, each one of 0-9 a-f, with
\* zeros on the left when the accumulator has fewer than 16 hex digits.
C6_DigestShape ==
    Ended("hash_password") =>
        /\ pc = "done"
        /\ Len(ret.str) = 16
        /\ \A i \in 1..Len(ret.str) : ret.str[i] \in LowerHexChars
        /\ LET sig == NatHexLen(SpecAccumulator(arg.password, arg.iterations))
           IN  /\ \A i \in 1..Len(ret.str) : i <= 16 - sig => ret.str[i] = "0"
               /\ sig > 0 => ret.str[16 - sig + 1] # "0"

C6_Witness ==
    /\ Returned("hash_password")
    /\ NatHexLen(SpecAccumulator(arg.password, arg.iterations)) \in 1..15
    /\ ret.str[1] = "0"
    /\ \E i \in 1..Len(ret.str) : ret.str[i] \in {"a", "b", "c", "d", "e", "f"}

\* ------------------------------------------------------------------ C7
\* C7: an empty password (any iteration count) or 0 iterations (any
\* password) gives "0000000000000000", and is no error.
C7_EmptyOrZeroIterations ==
    Ended("hash_password") /\ (arg.password = <<>> \/ arg.iterations = 0) =>
        /\ pc = "done"
        /\ ret.str = <<"0", "0", "0", "0", "0", "0", "0", "0",
                       "0", "0", "0", "0", "0", "0", "0", "0">>

C7_Witness ==
    /\ Returned("hash_password")
    /\ arg.password # <<>> /\ arg.iterations = 0
    /\ ret.str = [i \in 1..16 |-> "0"]

\* ------------------------------------------------------------------ C8
\* C8: fibonacci(n) <= fibonacci(n+1) whenever n + 1 <= 93.
C8_FibonacciMonotone ==
    Ended("fibonacci") /\ arg.n + 1 <= 93 =>
        /\ pc = "done"
        /\ ~fibonacci(arg.n + 1, overflow_checks).panicked
        /\ Leq64(ret.u64, fibonacci(arg.n + 1, overflow_checks).value)

C8_Witness ==
    /\ Returned("fibonacci") /\ arg.n = 92
    /\ ret.u64 # fibonacci(93, overflow_checks).value

\* ------------------------------------------------------------------ C9
\* C9: counting the primes of 2..max with the candidates dealt out to
\* several workers and the partial counts added up gives, for every
\* assignment and every interleaving, count_primes(max); a worker's step
\* touches no count but its own.
C9_ParallelEqualsSequential ==
    /\ Ended("count_primes_parallel") =>
          pc = "done" /\ ret.u32 = count_primes(arg.max)
    /\ pc = "running" =>
          \A w \in Workers :
              par.partial[w] =
                  Cardinality({c \in (2..arg.max) \ par.pending :
                                  par.assign[c] = w /\ is_prime(c)})

C9_Witness ==
    /\ Returned("count_primes_parallel") /\ arg.max = ParMaxN
    /\ \A w \in Workers : \E c \in 2..arg.max : par.assign[c] = w /\ is_prime(c)
    /\ ret.u32 = count_primes(arg.max)

\* ----------------------------------------------------------------- C10
\* C10: for every odd n >= 3 the trial-division bound is floor(sqrt(n)):
\* bound*bound <= n < (bound+1)*(bound+1); so the root of an odd perfect
\* square is among the divisors tried and the square is reported composite.
C10_SqrtBoundExact ==
    Ended("is_prime") /\ arg.n >= 3 /\ arg.n % 2 = 1 =>
        LET bound == f64_sqrt_as_u32(arg.n)
        IN  /\ bound * bound <= arg.n
            /\ arg.n < (bound + 1) * (bound + 1)
            /\ \A r \in 1..46340 :
                  r * r = arg.n => r \in StepBy2(3, bound) /\ ~ret.bool

C10_Witness ==
    /\ Returned("is_prime") /\ arg.n = 1018081 /\ ~ret.bool
    /\ f64_sqrt_as_u32(arg.n) = 1009

====
